---- MODULE Spec2Model ----
(***************************************************************************)
(* A model of esutil/recfile/records.cpp: the Records session object that  *)
(* reads and writes fixed-layout record files, binary or delimited ASCII.  *)
(*                                                                         *)
(* Bytes and characters are natural numbers (their unsigned byte value).   *)
(* A file is a sequence of bytes plus a cursor (number of bytes consumed). *)
(* C++ exceptions are modelled by the field err of the machine record that *)
(* is threaded through the operators: once err is set, every later step of *)
(* the handler is skipped, as a throw skips the rest of the call.          *)
(***************************************************************************)
EXTENDS Integers, Sequences, FiniteSets, TLC

VARIABLES
    life,     \* the session object: "none", "live", "gone", "failed", "hung", "crashed"
    obj,      \* the members of the Records object
    file,     \* the bytes of the file on disk
    fpos,     \* the cursor of the FILE* the session uses
    handle,   \* the FILE*: who opened it, whether it is open, fclose count
    call,     \* the last call made on the session, its arguments and outcome
    ncalls,   \* number of Read/Write calls made so far
    nsess,    \* number of sessions constructed so far
    charSigned, \* whether plain char is signed in this build
    written   \* the array whose binary image is the whole file, if any

vars == <<life, obj, file, fpos, handle, call, ncalls, nsess, charSigned, written>>

\* ------------------------------------------------------------------ bounds
MaxRows == 3
MaxCalls == 2
MaxSessions == 2

\* ------------------------------------------------------- program constants
NoNrows == -9999
NUL == 0
NL == 10
SPACE == 32
EOFc == -1
INT_MAX == 2147483647

BINARY_FILE == "BINARY_FILE"
ASCII_FILE == "ASCII_FILE"
READ == "READ"
WRITE == "WRITE"

NPY_INT8 == "NPY_INT8"
NPY_STRING == "NPY_STRING"
NPY_BOOL == "NPY_BOOL"

TypeNums == {NPY_INT8, NPY_STRING, NPY_BOOL}

NoErr == "none"

\* ----------------------------------------------------------------- helpers
Min(a, b) == IF a < b THEN a ELSE b

Zeros(n) == [i \in 1..n |-> 0]

RECURSIVE SumSeq(_)
SumSeq(s) == IF s = <<>> THEN 0 ELSE Head(s) + SumSeq(Tail(s))

\* Python-side objects are tagged records; v is the payload.
PyNone == [kind |-> "none", v |-> <<>>]
PyList(s) == [kind |-> "list", v |-> s]
PyStr(s) == [kind |-> "str", v |-> s]
PyOther == [kind |-> "other", v |-> <<>>]
NullPtr == [kind |-> "NULL", v |-> <<>>]
Descr(fs) == [kind |-> "descr", v |-> fs]

\* One field of a numpy type descriptor: name, total byte size, element
\* count, element type.
Field(n, size, nel, t) == [name |-> n, size |-> size, nel |-> nel, type |-> t]

\* descr->elsize of a packed record descriptor.
DescrElsize(fs) == SumSeq([i \in 1..Len(fs) |-> fs[i].size])

\* vector::resize(n, fill): keeps the existing elements.
Resize(vec, n, fill) == [i \in 1..n |-> IF i <= Len(vec) THEN vec[i] ELSE fill]

\* size_t -> int conversion of the value fread returns.
CastInt(x) == IF x <= INT_MAX THEN x ELSE x - INT_MAX - INT_MAX - 2

Raise(m, e) == [m EXCEPT !.err = e]

\* ----------------------------------------------------------- the session
NoArray == [kind |-> "NULL", nrows |-> 0, itemsize |-> 0, data |-> <<>>]

\* Members after InitializeVariables.  mNfields, mRowSize, mPadNull and
\* mIgnoreNull are not assigned there; every path assigns them before it
\* reads them (ProcessDescr, Write), so their start value is never observed.
InitializeVariables ==
    [ mTypeDescr |-> NullPtr,
      mRowsToRead |-> NullPtr,
      mReturnObject |-> NoArray,
      mData |-> 0,
      mFptr |-> "NULL",
      mFptrIsLocal |-> FALSE,
      mDelim |-> <<>>,
      mAction |-> READ,
      mFileType |-> BINARY_FILE,
      mReadAsWhitespace |-> FALSE,
      mReadWholeFileBinary |-> FALSE,
      mReadWholeRowBinary |-> FALSE,
      mKeepTypeDescr |-> NullPtr,
      mKeepNfields |-> 0,
      mNrows |-> 0,
      mNrowsToRead |-> 0,
      mMode |-> "",
      mNames |-> <<>>,
      mSizes |-> <<>>,
      mNel |-> <<>>,
      mTypeNums |-> <<>>,
      mRowSize |-> 0,
      mNfields |-> 0,
      mKeep |-> <<>>,
      mKeepId |-> <<>>,
      mPadNull |-> FALSE,
      mIgnoreNull |-> FALSE,
      mScanFormats |-> [t \in TypeNums |-> <<>>],
      mPrintFormats |-> [t \in TypeNums |-> <<>>] ]

NoHandle == [owner |-> "none", open |-> FALSE, nclose |-> 0]

\* The machine a handler runs on: the object, the file, the cursor, the
\* FILE*, the pending exception, whether a store ran past the end of the
\* output array, the output operations made and the one the device fails,
\* and whether the row loop or a seek went backwards.
Machine(o, f, p, h) ==
    [o |-> o, f |-> f, p |-> p, h |-> h, err |-> NoErr, overrun |-> FALSE,
     nout |-> 0, failAt |-> 0, rewound |-> FALSE]

\* ------------------------------------------------------------ construction
GetFptr(m, fileobj, mode) ==
    IF fileobj.kind = "str"
    THEN IF fileobj.v = "missing"
         THEN Raise(m, "OpenError")
         ELSE [m EXCEPT !.o.mFptr = "FILE", !.o.mFptrIsLocal = TRUE,
                        !.h = [owner |-> "session", open |-> TRUE, nclose |-> 0],
                        !.f = IF mode = "w" THEN <<>> ELSE @,
                        !.p = 0]
    ELSE IF fileobj.kind = "file"
    THEN IF fileobj.v = "closed"
         THEN Raise(m, "OpenError")
         ELSE [m EXCEPT !.o.mFptr = "FILE", !.o.mFptrIsLocal = FALSE,
                        !.h = [owner |-> "caller", open |-> TRUE, nclose |-> 0]]
    ELSE Raise(m, "OpenError")

\* ProcessDelim with the test of the first character inverted.
ProcessDelim_Inverted(m, delimobj) ==
    IF m.err # NoErr THEN m
    ELSE IF delimobj.kind \notin {"NULL", "str"} THEN Raise(m, "OpenError")
    ELSE LET d == IF delimobj.kind = "NULL" THEN <<>> ELSE delimobj.v
             c0 == IF d = <<>> THEN NUL ELSE d[1]
         IN [m EXCEPT !.o.mDelim = d, !.o.mReadAsWhitespace = (c0 # SPACE)]

ProcessDelim(m, delimobj) ==
    IF m.err # NoErr THEN m
    ELSE IF delimobj.kind \notin {"NULL", "str"} THEN Raise(m, "OpenError")
    ELSE LET d == IF delimobj.kind = "NULL" THEN <<>> ELSE delimobj.v
             \* mDelim[0] of an empty std::string is the terminating '\0'
             c0 == IF d = <<>> THEN NUL ELSE d[1]
         IN [m EXCEPT !.o.mDelim = d, !.o.mReadAsWhitespace = (c0 = SPACE)]

SetFileType(m) ==
    IF m.err # NoErr THEN m
    ELSE [m EXCEPT !.o.mFileType = IF m.o.mDelim = <<>> THEN BINARY_FILE ELSE ASCII_FILE]

CopyDescrOrderedNames(fs) == [i \in 1..Len(fs) |-> fs[i].name]

CopyFieldInfo(o, fs) ==
    [o EXCEPT !.mNames = CopyDescrOrderedNames(fs),
              !.mSizes = [i \in 1..Len(fs) |-> fs[i].size],
              !.mNel = [i \in 1..Len(fs) |-> fs[i].nel],
              !.mTypeNums = [i \in 1..Len(fs) |-> fs[i].type],
              !.mRowSize = DescrElsize(fs)]

ProcessDescr(m, dtype) ==
    IF m.err # NoErr THEN m
    ELSE IF dtype.kind # "descr" THEN Raise(m, "OpenError")
    ELSE LET o1 == CopyFieldInfo([m.o EXCEPT !.mTypeDescr = dtype], dtype.v)
         IN [m EXCEPT !.o = [o1 EXCEPT !.mNfields = Len(o1.mNames)]]

ProcessNrows(m, nrows) ==
    IF m.err # NoErr THEN m
    ELSE IF nrows < 1 THEN Raise(m, "OpenError")
    ELSE [m EXCEPT !.o.mNrows = nrows]

\* Records::Records.  A throw leaves the constructor without running the
\* destructor: whatever GetFptr opened stays as it is.
Records(f, p, fileobj, mode, delimobj, dtype, nrows) ==
    LET m0 == Machine([InitializeVariables EXCEPT !.mMode = mode], f, p, NoHandle)
        m1 == SetFileType(ProcessDelim(GetFptr(m0, fileobj, mode), delimobj))
    IN IF m1.err # NoErr THEN m1
       ELSE IF mode = "r"
       THEN IF dtype.kind = "NULL" \/ nrows = NoNrows
            THEN Raise(m1, "OpenError")
            ELSE ProcessNrows(ProcessDescr([m1 EXCEPT !.o.mAction = READ], dtype), nrows)
       ELSE [m1 EXCEPT !.o.mAction = WRITE]

\* Records::Close
Close(m) ==
    IF m.o.mFptrIsLocal /\ m.o.mFptr # "NULL"
    THEN [m EXCEPT !.o.mFptr = "NULL",
                   !.h.open = FALSE, !.h.nclose = @ + 1]
    ELSE m

\* Records::~Records
Destructor(m) == Close(m)

\* ------------------------------------------------------------------- stdio
AtEOF(m) == m.p >= Len(m.f)

\* The int fgetc would return next: a byte value, or EOF.
Peek(m) == IF AtEOF(m) THEN EOFc ELSE m.f[m.p + 1]

\* fgetc consumes one byte unless the input has ended.
Fgetc(m) == IF AtEOF(m) THEN m ELSE [m EXCEPT !.p = @ + 1]

\* The value of `char c = <int x>`: plain char is signed or unsigned,
\* whichever the build's platform makes it.
ToChar(x) ==
    IF charSigned
    THEN (IF x >= 128 THEN x - 256 ELSE x)
    ELSE (IF x < 0 THEN x + 256 ELSE x)

\* The byte a char leaves in memory.
ByteOf(c) == IF c < 0 THEN c + 256 ELSE c

\* fread(ptr, size, nitems, fp): the bytes delivered (a trailing partial item
\* included) and the number of complete items.
Fread(m, size, nitems) ==
    LET avail == IF AtEOF(m) THEN 0 ELSE Len(m.f) - m.p
        got == Min(avail, size * nitems)
    IN [bytes |-> SubSeq(m.f, m.p + 1, m.p + got),
        items |-> got \div size,
        m |-> [m EXCEPT !.p = @ + got]]

\* fseeko(fp, off, SEEK_CUR) on a regular file: positions past the end of
\* the file are allowed.
Fseeko(m, off) == [m EXCEPT !.p = @ + off, !.rewound = @ \/ off < 0]

\* A store of bytes at byte offset off of the output array's data area.  The
\* array holds cap bytes; what is stored past them lands outside the array.
StoreBytes(m, off, bytes) ==
    LET old == m.o.mReturnObject.data
        cap == Len(old)
        new == [i \in 1..cap |->
                   IF i > off /\ i <= off + Len(bytes) THEN bytes[i - off] ELSE old[i]]
    IN [m EXCEPT !.o.mReturnObject.data = new,
                 !.overrun = @ \/ (Len(bytes) > 0 /\ off + Len(bytes) > cap)]

\* ------------------------------------------------------- row/field selection
\* The item of a Python list that is not a string.
NonString == "<non-string>"

Object2IntpArray(m, rows) ==
    IF rows.kind = "none" THEN [m EXCEPT !.o.mRowsToRead = NullPtr]
    ELSE IF rows.kind = "list" THEN [m EXCEPT !.o.mRowsToRead = [kind |-> "arr", v |-> rows.v]]
    ELSE Raise(m, "BadRows")

\* ProcessRowsToRead taking an empty row list for no row list.
ProcessRowsToRead_EmptyIsAll(m, rows) ==
    IF m.err # NoErr THEN m
    ELSE LET m1 == Object2IntpArray(m, rows)
         IN IF m1.err # NoErr THEN m1
            ELSE IF m1.o.mRowsToRead.kind = "NULL" \/ Len(m1.o.mRowsToRead.v) = 0
            THEN [m1 EXCEPT !.o.mNrowsToRead = m1.o.mNrows]
            ELSE [m1 EXCEPT !.o.mNrowsToRead = Len(m1.o.mRowsToRead.v)]

ProcessRowsToRead(m, rows) ==
    IF m.err # NoErr THEN m
    ELSE LET m1 == Object2IntpArray(m, rows)
         IN IF m1.err # NoErr THEN m1
            ELSE IF m1.o.mRowsToRead.kind = "NULL"
            THEN [m1 EXCEPT !.o.mNrowsToRead = m1.o.mNrows]
            ELSE [m1 EXCEPT !.o.mNrowsToRead = Len(m1.o.mRowsToRead.v)]

\* The match ids (0-based schema positions) for a list of requested names.
RECURSIVE MatchLoop(_, _, _)
MatchLoop(snames, goodones, i) ==
    IF i > Len(snames) THEN <<>>
    ELSE (IF \E k \in 1..Len(goodones) : goodones[k] = snames[i]
          THEN <<i - 1>> ELSE <<>>) \o MatchLoop(snames, goodones, i + 1)

\* ListStringMatch without the throw for a request that matches nothing.
ListStringMatch_NoThrow(m, snames, list) ==
    LET len == Len(list)
        goodones == SelectSeq(list, LAMBDA x : x # NonString)
        ids == IF len <= 0 THEN [i \in 1..Len(snames) |-> i - 1]
               ELSE MatchLoop(snames, goodones, 1)
    IN IF len > 0 /\ Len(goodones) = 0
       THEN Raise([m EXCEPT !.o.mKeepId = <<>>], "FieldsNotString")
       ELSE [m EXCEPT !.o.mKeepId = ids]

\* Records::ListStringMatch; matchids is the member mKeepId, passed by
\* reference and cleared on entry.
ListStringMatch(m, snames, list) ==
    LET len == Len(list)
        goodones == SelectSeq(list, LAMBDA x : x # NonString)
        ids == IF len <= 0 THEN [i \in 1..Len(snames) |-> i - 1]
               ELSE MatchLoop(snames, goodones, 1)
        m1 == [m EXCEPT !.o.mKeepId = <<>>]
    IN IF len > 0 /\ Len(goodones) = 0 THEN Raise(m1, "FieldsNotString")
       ELSE IF Len(ids) = 0 THEN Raise([m1 EXCEPT !.o.mKeepId = ids], "NoMatchingFields")
       ELSE [m1 EXCEPT !.o.mKeepId = ids]

\* Records::ExtractSubDescr: the descriptor of the named fields.
ExtractSubDescr(fs, ids) == Descr([i \in 1..Len(ids) |-> fs[ids[i] + 1]])

\* Records::SubDtype
SubDtype(m, fields) ==
    IF fields.kind \notin {"list", "str"} THEN Raise(m, "BadFields")
    ELSE LET list == IF fields.kind = "list" THEN fields.v ELSE <<fields.v>>
             m1 == ListStringMatch(m, CopyDescrOrderedNames(m.o.mTypeDescr.v), list)
         IN IF m1.err # NoErr THEN m1
            ELSE [m1 EXCEPT !.o.mKeepTypeDescr =
                                ExtractSubDescr(m.o.mTypeDescr.v, m1.o.mKeepId)]

\* The loop that sets mKeep at the kept positions.
RECURSIVE SetKeep(_, _, _)
SetKeep(keep, ids, n) ==
    IF n = 0 THEN keep
    ELSE SetKeep([keep EXCEPT ![ids[n] + 1] = 1], ids, n - 1)

ProcessFieldsToRead(m, fields) ==
    IF m.err # NoErr THEN m
    ELSE LET m0 == [m EXCEPT !.o.mKeep = Resize(@, m.o.mNfields, 0)]
             Count(s) == IF s.err # NoErr THEN s
                         ELSE [s EXCEPT !.o.mKeepNfields = Len(s.o.mKeepId)]
             Mark(m1) ==
                 IF m1.err # NoErr THEN m1
                 ELSE [m1 EXCEPT !.o.mKeep = SetKeep(@, m1.o.mKeepId, m1.o.mKeepNfields)]
         IN Mark(IF fields.kind = "none"
                 THEN [m0 EXCEPT !.o.mKeepNfields = m0.o.mNfields,
                                 !.o.mKeepId = [i \in 1..m0.o.mNfields |-> i - 1],
                                 !.o.mKeepTypeDescr = m0.o.mTypeDescr]
                 ELSE Count(SubDtype(m0, fields)))

CreateOutputArray(m) ==
    IF m.err # NoErr THEN m
    ELSE LET isz == DescrElsize(m.o.mKeepTypeDescr.v)
         IN [m EXCEPT !.o.mReturnObject =
                          [kind |-> "arr", nrows |-> m.o.mNrowsToRead,
                           itemsize |-> isz,
                           data |-> Zeros(m.o.mNrowsToRead * isz)],
                      !.o.mData = 0]

\* ------------------------------------------------------------- scan formats
\* Format strings are sequences of character codes.
IsSpace(c) == c \in {9, 10, 11, 12, 13, 32}
IsDigit(c) == c >= 48 /\ c <= 57

\* "%" followed by the type's format letters (NPY_INT8_FMT is "hhd"); no
\* entry of the table is made for a type the function does not list, whose
\* format stays the bare "%".
BaseScanFormat(t) == IF t = NPY_INT8 THEN <<37, 104, 104, 100>> ELSE <<37>>

\* MakeScanFormats appending the delimiter alone.
MakeScanFormats_NoSpace(o, add_delim) ==
    [t \in TypeNums |->
        LET base == BaseScanFormat(t)
        IN IF (~o.mReadAsWhitespace) /\ add_delim /\ base # <<37>>
           THEN base \o o.mDelim
           ELSE base]

\* Records::MakeScanFormats: the table of scan formats, by type.
MakeScanFormats(o, add_delim) ==
    [t \in TypeNums |->
        LET base == BaseScanFormat(t)
        IN IF (~o.mReadAsWhitespace) /\ add_delim /\ base # <<37>>
           THEN base \o <<SPACE>> \o o.mDelim
           ELSE base]

\* The part of a format that follows its one conversion specification: the
\* text after the conversion letter ('d' here).
RECURSIVE FormatSuffix(_)
FormatSuffix(fmt) ==
    IF fmt = <<>> THEN <<>>
    ELSE IF Head(fmt) \in {37, 104, 108, 76} THEN FormatSuffix(Tail(fmt))
    ELSE Tail(fmt)

\* Skipping of white space by a scan.
RECURSIVE SkipSpace(_)
SkipSpace(m) == IF IsSpace(Peek(m)) THEN SkipSpace(Fgetc(m)) ELSE m

\* The digits of an integer conversion: the value read so far and the count.
RECURSIVE ScanDigits(_, _, _)
ScanDigits(m, val, n) ==
    IF IsDigit(Peek(m)) THEN ScanDigits(Fgetc(m), val * 10 + (Peek(m) - 48), n + 1)
    ELSE [m |-> m, val |-> val, n |-> n]

\* The literal text of a format after its conversion: white space in the
\* format matches any amount of white space in the input, any other
\* character must match the next input character, and the scan stops at the
\* first mismatch, leaving that character unread.
RECURSIVE MatchLiteral(_, _)
MatchLiteral(m, lit) ==
    IF lit = <<>> THEN m
    ELSE IF IsSpace(Head(lit)) THEN MatchLiteral(SkipSpace(m), Tail(lit))
    ELSE IF Peek(m) = Head(lit) THEN MatchLiteral(Fgetc(m), Tail(lit))
    ELSE m

\* fscanf(fp, fmt, buff) for a format holding one integer conversion: its
\* return value, the value converted and the machine afterwards.
Fscanf(m, fmt) ==
    LET Done(neg, d, m3) ==
            [ret |-> 1, val |-> IF neg THEN 0 - d.val ELSE d.val, m |-> m3,
             eof |-> AtEOF(m3)]
        Convert(neg, d) ==
            IF d.n = 0 THEN [ret |-> 0, val |-> 0, m |-> d.m, eof |-> AtEOF(d.m)]
            ELSE Done(neg, d, MatchLiteral(d.m, FormatSuffix(fmt)))
        Scan(m1) ==
            IF AtEOF(m1) THEN [ret |-> EOFc, val |-> 0, m |-> m1, eof |-> TRUE]
            ELSE Convert(Peek(m1) = 45,
                         ScanDigits(IF Peek(m1) \in {43, 45} THEN Fgetc(m1) ELSE m1, 0, 0))
    IN Scan(SkipSpace(m))

\* The byte an 8-bit integer conversion stores for a value.
Int8Byte(v) == v % 256

\* -------------------------------------------------------------- read engine
Kept(m, fnum) == m.o.mKeep[fnum + 1] # 0

\* ReadAllAsBinary asking fread for one row instead of mNrows.
ReadAllAsBinary_OneRow(m) ==
    LET r == Fread(m, m.o.mRowSize, 1)
        m1 == StoreBytes(r.m, m.o.mData, r.bytes)
    IN IF CastInt(r.items) # 1 THEN Raise(m1, "TruncatedFile") ELSE m1

\* ReadAllAsBinary without the test of fread's return value.
ReadAllAsBinary_NoCheck(m) ==
    LET r == Fread(m, m.o.mRowSize, m.o.mNrows)
    IN StoreBytes(r.m, m.o.mData, r.bytes)

\* A 64-bit count, hi * 2^31 + lo with lo in 0..INT_MAX.
Wide(hi, lo) == [hi |-> hi, lo |-> lo]

\* The int a 64-bit count becomes when stored in one: its low 32 bits, the
\* top one of them the sign.
WideToInt(w) == IF w.hi % 2 = 0 THEN w.lo ELSE w.lo - INT_MAX - 1

\* int == long long: the int is widened, so only a count below 2^31 can
\* equal it.
IntEqualsWide(i, w) == i >= 0 /\ w.hi = 0 /\ w.lo = i

\* The end of ReadAllAsBinary: fread's count of items, stored in an int, is
\* compared with the 64-bit mNrows.
BulkReadCheck(m, items, nrows) ==
    LET nread == WideToInt(items)
    IN IF ~IntEqualsWide(nread, nrows) THEN Raise(m, "TruncatedFile") ELSE m

ReadAllAsBinary(m) ==
    LET r == Fread(m, m.o.mRowSize, m.o.mNrows)
        m1 == StoreBytes(r.m, m.o.mData, r.bytes)
    IN BulkReadCheck(m1, Wide(0, r.items), Wide(0, m.o.mNrows))

ReadFieldAsBinary(m, fnum) ==
    LET size == m.o.mSizes[fnum + 1]
        r == Fread(m, size, 1)
        m1 == StoreBytes(r.m, m.o.mData, r.bytes)
        nread == CastInt(r.items)
    IN IF nread # 1 THEN Raise(m1, "TruncatedFile")
       ELSE [m1 EXCEPT !.o.mData = @ + size]

\* One element of ReadAsciiBytes: size_per_el characters, each tested
\* against EOF as a char, stored at buff (the output array when the field is
\* kept, the scratch string otherwise).
RECURSIVE ReadAsciiChars(_, _, _, _)
ReadAsciiChars(m, keep, buff, n) ==
    IF n = 0 \/ m.err # NoErr THEN [m |-> m, buff |-> buff]
    ELSE LET c == ToChar(Peek(m))
             m1 == Fgetc(m)
         IN IF c = EOFc THEN [m |-> Raise(m1, "UnexpectedEOF"), buff |-> buff]
            ELSE ReadAsciiChars(IF keep THEN StoreBytes(m1, buff, <<ByteOf(c)>>) ELSE m1,
                                keep, buff + 1, n - 1)

RECURSIVE ReadAsciiElems(_, _, _, _, _)
ReadAsciiElems(m, keep, buff, size_per_el, nel) ==
    IF nel = 0 \/ m.err # NoErr THEN m
    ELSE LET Rest(r) ==
                 IF r.m.err # NoErr THEN r.m
                 \* Read the delimiter or EOL
                 ELSE ReadAsciiElems(Fgetc(r.m), keep, r.buff, size_per_el, nel - 1)
         IN Rest(ReadAsciiChars(m, keep, buff, size_per_el))

ReadAsciiBytes(m, fnum) ==
    ReadAsciiElems(m, Kept(m, fnum), m.o.mData,
                   m.o.mSizes[fnum + 1] \div m.o.mNel[fnum + 1], m.o.mNel[fnum + 1])

RECURSIVE ScanElems(_, _, _, _, _, _)
ScanElems(m, keep, buff, elsize, fmt, nel) ==
    IF nel = 0 \/ m.err # NoErr THEN m
    ELSE LET Rest(r) ==
                 IF r.ret # 1
                 THEN Raise(r.m, IF r.eof THEN "UnexpectedEOF" ELSE "ScanError")
                 ELSE ScanElems(IF keep THEN StoreBytes(r.m, buff, <<Int8Byte(r.val)>>)
                                ELSE r.m,
                                keep, buff + elsize, elsize, fmt, nel - 1)
         IN Rest(Fscanf(m, fmt))

ScanVal(m, fnum) ==
    ScanElems(m, Kept(m, fnum), m.o.mData,
              m.o.mSizes[fnum + 1] \div m.o.mNel[fnum + 1],
              m.o.mScanFormats[m.o.mTypeNums[fnum + 1]],
              m.o.mNel[fnum + 1])

ReadFieldAsAscii(m, fnum) ==
    LET Separator(s) == IF s.err = NoErr /\ s.o.mReadAsWhitespace THEN Fgetc(s) ELSE s
        Advance(m1) ==
            IF m1.err # NoErr THEN m1
            ELSE IF Kept(m1, fnum) THEN [m1 EXCEPT !.o.mData = @ + m.o.mSizes[fnum + 1]]
            ELSE m1
    IN Advance(IF m.o.mTypeNums[fnum + 1] = NPY_STRING THEN ReadAsciiBytes(m, fnum)
               ELSE Separator(ScanVal(m, fnum)))

ReadField(m, fnum) ==
    IF m.o.mFileType = BINARY_FILE THEN ReadFieldAsBinary(m, fnum)
    ELSE ReadFieldAsAscii(m, fnum)

SkipFieldAsBinary(m, fnum) == Fseeko(m, m.o.mSizes[fnum + 1])

SkipFieldAsAscii(m, fnum) == ReadFieldAsAscii(m, fnum)

SkipField(m, fnum) ==
    IF m.o.mFileType = BINARY_FILE THEN SkipFieldAsBinary(m, fnum)
    ELSE SkipFieldAsAscii(m, fnum)

RECURSIVE ReadFieldsFrom(_, _)
ReadFieldsFrom(m, fnum) ==
    IF fnum >= m.o.mNfields \/ m.err # NoErr THEN m
    ELSE ReadFieldsFrom(IF Kept(m, fnum) THEN ReadField(m, fnum) ELSE SkipField(m, fnum),
                        fnum + 1)

ReadFields(m) == ReadFieldsFrom(m, 0)

ReadWholeRowBinary(m) ==
    LET r == Fread(m, m.o.mRowSize, 1)
        m1 == StoreBytes(r.m, m.o.mData, r.bytes)
        nread == CastInt(r.items)
    IN IF nread # 1 THEN Raise(m1, "TruncatedFile")
       ELSE [m1 EXCEPT !.o.mData = @ + m.o.mRowSize]

ReadRow(m) == IF m.o.mReadWholeRowBinary THEN ReadWholeRowBinary(m) ELSE ReadFields(m)

\* The newline-counting loop.  With an unsigned plain char the EOF test never
\* succeeds, and at end of input the loop spins for ever: err "hang".
RECURSIVE SkipAsciiLoop(_, _, _)
SkipAsciiLoop(m, nlines, nskip) ==
    IF nlines >= nskip THEN m
    ELSE LET c == ToChar(Peek(m))
             m1 == Fgetc(m)
         IN IF c = EOFc THEN Raise(m1, "UnexpectedEOF")
            ELSE IF AtEOF(m) THEN Raise(m1, "hang")
            ELSE SkipAsciiLoop(m1, IF c = NL THEN nlines + 1 ELSE nlines, nskip)

SkipAsciiRows(m, nskip) == IF nskip > 0 THEN SkipAsciiLoop(m, 0, nskip) ELSE m

SkipBinaryRows(m, nskip) == IF nskip > 0 THEN Fseeko(m, m.o.mRowSize * nskip) ELSE m

SkipRows(m, current_row, row2read) ==
    IF m.o.mFileType = BINARY_FILE THEN SkipBinaryRows(m, row2read - current_row)
    ELSE SkipAsciiRows(m, row2read - current_row)

\* The row loop moving to the row asked for whenever it is not the current
\* row, backward as well as forward.
RECURSIVE ReadRowsFrom_SeekToRow(_, _, _)
ReadRowsFrom_SeekToRow(m, irow, current_row) ==
    IF irow >= m.o.mNrowsToRead \/ m.err # NoErr THEN m
    ELSE LET row2read == IF m.o.mNrowsToRead # m.o.mNrows
                         THEN m.o.mRowsToRead.v[irow + 1] ELSE irow
             Rest(m1) ==
                 IF m1.err # NoErr THEN m1
                 ELSE ReadRowsFrom_SeekToRow(
                          [ReadRow(m1) EXCEPT !.rewound = @ \/ row2read < current_row],
                          irow + 1, row2read + 1)
         IN Rest(IF row2read = current_row THEN m
                 ELSE IF m.o.mFileType = BINARY_FILE
                 THEN Fseeko(m, m.o.mRowSize * (row2read - current_row))
                 ELSE SkipAsciiRows(m, row2read - current_row))

\* The row loop of ReadRows.  rewound records a current row that went down.
RECURSIVE ReadRowsFrom(_, _, _)
ReadRowsFrom(m, irow, current_row) ==
    IF irow >= m.o.mNrowsToRead \/ m.err # NoErr THEN m
    ELSE LET row2read == IF m.o.mNrowsToRead # m.o.mNrows
                         THEN m.o.mRowsToRead.v[irow + 1] ELSE irow
             skip == row2read > current_row
             cur == IF skip THEN row2read ELSE current_row
             Rest(m1) ==
                 IF m1.err # NoErr THEN m1
                 ELSE ReadRowsFrom([ReadRow(m1) EXCEPT !.rewound = @ \/ cur < current_row],
                                   irow + 1, cur + 1)
         IN Rest(IF skip THEN SkipRows(m, current_row, row2read) ELSE m)

ReadRows(m) == ReadRowsFrom(m, 0, 0)

ReadPrepare(m) ==
    IF m.err # NoErr THEN m
    ELSE IF m.o.mFileType = BINARY_FILE /\ m.o.mNrowsToRead = m.o.mNrows
            /\ m.o.mKeepNfields = m.o.mNfields
    THEN [m EXCEPT !.o.mReadWholeFileBinary = TRUE]
    ELSE IF m.o.mFileType = BINARY_FILE /\ m.o.mKeepNfields = m.o.mNfields
    THEN [m EXCEPT !.o.mReadWholeRowBinary = TRUE]
    ELSE IF m.o.mFileType = ASCII_FILE
    THEN [m EXCEPT !.o.mScanFormats = MakeScanFormats(m.o, TRUE)]
    ELSE m

ReadFromFile(m) ==
    IF m.err # NoErr THEN m
    ELSE IF m.o.mReadWholeFileBinary THEN ReadAllAsBinary(m) ELSE ReadRows(m)

\* Read selecting the rows before it tests the handle and the mode.
Read_RowsBeforeChecks(m, rows, fields) ==
    LET Checked(m1) ==
            IF m1.err # NoErr THEN m1
            ELSE IF m1.o.mFptr = "NULL" THEN Raise(m1, "NotOpen")
            ELSE IF m1.o.mAction # READ THEN Raise(m1, "WrongMode")
            ELSE ReadFromFile(ReadPrepare(CreateOutputArray(
                     ProcessFieldsToRead(m1, fields))))
    IN Checked(ProcessRowsToRead(m, rows))

\* Records::Read
Read(m, rows, fields) ==
    IF m.o.mFptr = "NULL" THEN Raise(m, "NotOpen")
    ELSE IF m.o.mAction # READ THEN Raise(m, "WrongMode")
    ELSE ReadFromFile(ReadPrepare(CreateOutputArray(
             ProcessFieldsToRead(ProcessRowsToRead(m, rows), fields))))

\* ------------------------------------------------------------- write engine
\* The bytes of the file after bytes are written at the cursor.
WriteAt(f, p, bytes) ==
    LET n == IF p + Len(bytes) > Len(f) THEN p + Len(bytes) ELSE Len(f)
    IN [i \in 1..n |->
           IF i > p /\ i <= p + Len(bytes) THEN bytes[i - p]
           ELSE IF i <= Len(f) THEN f[i] ELSE 0]

\* One output operation (fputc, fprintf) writing bytes.  The operation whose
\* number is failAt fails and writes nothing; ok tells the caller.
Output(m, bytes) ==
    LET n == m.nout + 1
    IN IF n = m.failAt
       THEN [ok |-> FALSE, m |-> [m EXCEPT !.nout = n]]
       ELSE [ok |-> TRUE,
             m |-> [m EXCEPT !.nout = n, !.f = WriteAt(m.f, m.p, bytes),
                             !.p = @ + Len(bytes)]]

\* fwrite(ptr, size, nitems, fp): a failing device accepts failAt - 1 items.
Fwrite(m, bytes, size, nitems) ==
    LET nwrite == IF m.failAt > 0 /\ m.failAt - 1 < nitems THEN m.failAt - 1 ELSE nitems
        out == SubSeq(bytes, 1, nwrite * size)
    IN [nwrite |-> nwrite,
        m |-> [m EXCEPT !.f = WriteAt(m.f, m.p, out), !.p = @ + Len(out)]]

\* The caller's array: what mData points into during Write.
ArrBytes(arr, off, n) == SubSeq(arr.data, off + 1, off + n)

WriteAllAsBinary(m, arr) ==
    LET w == Fwrite(m, ArrBytes(arr, m.o.mData, m.o.mRowSize * m.o.mNrows),
                    m.o.mRowSize, m.o.mNrows)
    IN IF w.nwrite < m.o.mNrows THEN Raise(w.m, "ShortWrite") ELSE w.m

\* Records::MakePrintFormats: "%s" for strings; the floating formats it
\* overrides belong to types outside TypeNums.
MakePrintFormats(o) ==
    [t \in TypeNums |->
        IF t = NPY_STRING THEN <<37, 115>> ELSE MakeScanFormats(o, FALSE)[t]]

\* The decimal digits of a natural number.
RECURSIVE Digits(_)
Digits(n) == IF n < 10 THEN <<48 + n>> ELSE Digits(n \div 10) \o <<48 + (n % 10)>>

\* What "%hhd" prints for the byte at the data pointer.
PrintInt8(b) == IF b >= 128 THEN <<45>> \o Digits(256 - b) ELSE Digits(b)

WriteNumberAsAscii(m, arr, type) ==
    IF type = NPY_INT8
    THEN LET r == Output(m, PrintInt8(ArrBytes(arr, m.o.mData, 1)[1]))
         IN IF r.ok THEN r.m ELSE Raise(r.m, "WriteFailure")
    ELSE Raise(m, "UnsupportedType")

\* The character loop with the pad test made before the ignore test.
RECURSIVE WriteStringChars_PadFirst(_, _, _, _)
WriteStringChars_PadFirst(m, arr, i, slen) ==
    IF i >= slen THEN m
    ELSE LET c0 == ArrBytes(arr, m.o.mData + i, 1)[1]
             Put(r) == IF ~r.ok THEN Raise(r.m, "WriteFailure")
                       ELSE WriteStringChars_PadFirst(r.m, arr, i + 1, slen)
         IN IF c0 = NUL /\ m.o.mPadNull THEN Put(Output(m, <<SPACE>>))
            ELSE IF c0 = NUL /\ m.o.mIgnoreNull THEN m
            ELSE Put(Output(m, <<c0>>))

\* The character loop of WriteStringAsAscii from character i of the element.
RECURSIVE WriteStringChars(_, _, _, _)
WriteStringChars(m, arr, i, slen) ==
    IF i >= slen THEN m
    ELSE LET c0 == ArrBytes(arr, m.o.mData + i, 1)[1]
         IN IF c0 = NUL /\ m.o.mIgnoreNull THEN m
            ELSE LET c == IF c0 = NUL /\ m.o.mPadNull THEN SPACE ELSE c0
                     r == Output(m, <<c>>)
                 IN IF ~r.ok THEN Raise(r.m, "WriteFailure")
                    ELSE WriteStringChars(r.m, arr, i + 1, slen)

WriteStringAsAscii(m, arr, fnum) ==
    WriteStringChars(m, arr, 0, m.o.mSizes[fnum + 1] \div m.o.mNel[fnum + 1])

\* WriteField writing the delimiter after the last field as well.
WriteField_DelimAfterLast(m, arr, fnum) ==
    LET Delim(m1) == IF m1.err # NoErr THEN m1 ELSE Output(m1, m.o.mDelim).m
    IN Delim(IF m.o.mTypeNums[fnum + 1] = NPY_STRING
             THEN WriteStringAsAscii(m, arr, fnum)
             ELSE WriteNumberAsAscii(m, arr, m.o.mTypeNums[fnum + 1]))

WriteField(m, arr, fnum) ==
    LET Delim(m1) ==
            IF m1.err # NoErr THEN m1
            ELSE IF fnum < m.o.mNfields - 1 THEN Output(m1, m.o.mDelim).m
            ELSE m1
    IN Delim(IF m.o.mTypeNums[fnum + 1] = NPY_STRING
             THEN WriteStringAsAscii(m, arr, fnum)
             ELSE WriteNumberAsAscii(m, arr, m.o.mTypeNums[fnum + 1]))

RECURSIVE WriteElems(_, _, _, _, _)
WriteElems(m, arr, fnum, el, nel) ==
    IF el >= nel \/ m.err # NoErr THEN m
    ELSE LET Rest(m1) ==
                 IF m1.err # NoErr THEN m1
                 ELSE WriteElems([m1 EXCEPT !.o.mData = @ + (m.o.mSizes[fnum + 1] \div nel)],
                                 arr, fnum, el + 1, nel)
         IN Rest(WriteField(m, arr, fnum))

RECURSIVE WriteFieldsFrom(_, _, _)
WriteFieldsFrom(m, arr, fnum) ==
    IF fnum >= m.o.mNfields \/ m.err # NoErr THEN m
    ELSE WriteFieldsFrom(WriteElems(m, arr, fnum, 0, m.o.mNel[fnum + 1]), arr, fnum + 1)

RECURSIVE WriteRowsFrom(_, _, _)
WriteRowsFrom(m, arr, row) ==
    IF row >= m.o.mNrows \/ m.err # NoErr THEN m
    ELSE LET Rest(m1) ==
                 IF m1.err # NoErr THEN m1
                 \* Write the newline character
                 ELSE WriteRowsFrom(Output(m1, <<NL>>).m, arr, row + 1)
         IN Rest(WriteFieldsFrom(m, arr, 0))

WriteRows(m, arr) ==
    WriteRowsFrom([m EXCEPT !.o.mPrintFormats = MakePrintFormats(m.o),
                            !.o.mScanFormats = MakeScanFormats(m.o, FALSE)], arr, 0)

\* Records::Write
Write(m, arr, padnull, ignorenull) ==
    IF m.o.mFptr = "NULL" THEN Raise(m, "NotOpen")
    ELSE IF m.o.mAction # WRITE THEN Raise(m, "WrongMode")
    ELSE IF arr.kind # "arr" THEN Raise(m, "NotArray")
    ELSE LET o1 == CopyFieldInfo([m.o EXCEPT !.mNrows = arr.nrows,
                                            !.mPadNull = padnull,
                                            !.mIgnoreNull = ignorenull], arr.dtype)
             m1 == [m EXCEPT !.o = [o1 EXCEPT !.mNfields = Len(o1.mNames), !.mData = 0]]
         IN IF m1.o.mFileType = BINARY_FILE THEN WriteAllAsBinary(m1, arr)
            ELSE WriteRows(m1, arr)

\* ----------------------------------------------------------------- inputs
Array(fs, nrows, data) == [kind |-> "arr", dtype |-> fs, nrows |-> nrows, data |-> data]
NotAnArray == [kind |-> "other", dtype |-> <<>>, nrows |-> 0, data |-> <<>>]

\* Record layouts: (a: int8, b: 2-byte string) and
\* (a: int8, b: two int8 elements, c: 1-byte string).
D2 == <<Field("a", 1, 1, NPY_INT8), Field("b", 2, 1, NPY_STRING)>>
D3 == <<Field("a", 1, 1, NPY_INT8), Field("b", 2, 2, NPY_INT8), Field("c", 1, 1, NPY_STRING)>>
DBool == <<Field("a", 1, 1, NPY_INT8), Field("f", 1, 1, NPY_BOOL)>>

\* n bytes, all different: 65, 66, ...
Ramp(n) == [i \in 1..n |-> 64 + i]

\* "1,ab\n2,cd\n3,ef\n4,gh\n"
TextD2 == <<49, 44, 97, 98, 10, 50, 44, 99, 100, 10, 51, 44, 101, 102, 10,
            52, 44, 103, 104, 10>>

PathObj == PyStr("rec.dat")
FileObj == [kind |-> "file", v |-> "open"]
Comma == PyStr(<<44>>)
Blank == PyStr(<<SPACE>>)
Tab == PyStr(<<9>>)
CommaBlank == PyStr(<<44, SPACE>>)

\* ---------------------------------------------------------------- actions
NoCall == [op |-> "none", rows |-> PyNone, fields |-> PyNone, arr |-> NotAnArray,
           pad |-> FALSE, ign |-> FALSE, failAt |-> 0,
           pos0 |-> 0, err |-> NoErr, ret |-> NoArray, overrun |-> FALSE,
           rewound |-> FALSE, nout |-> 0, arg |-> 0,
           items |-> Wide(0, 0), nrows |-> Wide(0, 0)]

\* The state before any session exists: a file on disk; n sessions have
\* already come and gone and c calls have been made.
Start(files, n, c) ==
    /\ life = "none"
    /\ obj = InitializeVariables
    /\ file \in files
    /\ fpos = 0
    /\ handle = NoHandle
    /\ call = NoCall
    /\ ncalls = c
    /\ nsess = n
    /\ charSigned \in BOOLEAN
    /\ written = NotAnArray

\* new Records(fileobj, mode, delim, dtype, nrows)
Construct(fileobj, mode, delimobj, dtype, nrows) ==
    /\ life \in {"none", "gone", "failed"}
    /\ nsess < MaxSessions
    /\ \E m \in {Records(file, fpos, fileobj, mode, delimobj, dtype, nrows)} :
          /\ life' = IF m.err = NoErr THEN "live" ELSE "failed"
          /\ obj' = IF m.err = NoErr THEN m.o ELSE InitializeVariables
          /\ file' = m.f
          /\ fpos' = m.p
          /\ handle' = m.h
          /\ call' = [NoCall EXCEPT !.op = "Records", !.err = m.err]
          /\ written' = IF m.f = file THEN written ELSE NotAnArray
    /\ nsess' = nsess + 1
    /\ UNCHANGED <<ncalls, charSigned>>

\* session.Read(rows, fields).  A call that stored past the end of the
\* output array has undefined behaviour: it may go on or end the process.
\* A call that never returns leaves the session hung.
DoRead(rows, fields) ==
    /\ life = "live"
    /\ ncalls < MaxCalls
    /\ \E m \in {Read(Machine(obj, file, fpos, handle), rows, fields)} :
          /\ life' \in IF m.err = "hang" THEN {"hung"}
                       ELSE IF m.overrun THEN {"live", "crashed"}
                       ELSE {"live"}
          /\ obj' = m.o
          /\ file' = m.f
          /\ fpos' = m.p
          /\ handle' = m.h
          /\ call' = [NoCall EXCEPT !.op = "Read", !.rows = rows, !.fields = fields,
                                    !.pos0 = fpos, !.err = m.err,
                                    !.ret = IF m.err = NoErr THEN m.o.mReturnObject
                                            ELSE NoArray,
                                    !.overrun = m.overrun, !.rewound = m.rewound]
    /\ ncalls' = ncalls + 1
    /\ UNCHANGED <<nsess, charSigned, written>>

\* session.Write(arr, padnull, ignorenull); failAt numbers the output
\* operation the device fails, 0 for none.
DoWrite(arr, padnull, ignorenull, failAt) ==
    /\ life = "live"
    /\ ncalls < MaxCalls
    /\ \E m \in {Write([Machine(obj, file, fpos, handle) EXCEPT !.failAt = failAt],
                       arr, padnull, ignorenull)} :
          /\ obj' = m.o
          /\ file' = m.f
          /\ fpos' = m.p
          /\ handle' = m.h
          /\ call' = [NoCall EXCEPT !.op = "Write", !.arr = arr, !.pad = padnull,
                                    !.ign = ignorenull, !.failAt = failAt,
                                    !.pos0 = fpos, !.err = m.err, !.nout = m.nout]
          /\ written' = IF m.f = file THEN written
                        ELSE IF m.err = NoErr /\ file = <<>> /\ fpos = 0
                                /\ obj.mFileType = BINARY_FILE
                        THEN arr ELSE NotAnArray
    /\ ncalls' = ncalls + 1
    /\ UNCHANGED <<life, nsess, charSigned>>

\* SkipAsciiRows(nskip), the step of ReadRows that moves a delimited file
\* forward by whole rows.  A loop that never ends leaves the session hung.
DoSkipAsciiRows(nskip) ==
    /\ life = "live"
    /\ ncalls < MaxCalls
    /\ obj.mFileType = ASCII_FILE
    /\ \E m \in {SkipAsciiRows(Machine(obj, file, fpos, handle), nskip)} :
          /\ life' = IF m.err = "hang" THEN "hung" ELSE "live"
          /\ obj' = m.o
          /\ file' = m.f
          /\ fpos' = m.p
          /\ handle' = m.h
          /\ call' = [NoCall EXCEPT !.op = "SkipAsciiRows", !.arg = nskip,
                                    !.pos0 = fpos, !.err = m.err]
    /\ ncalls' = ncalls + 1
    /\ UNCHANGED <<nsess, charSigned, written>>

\* The comparison that ends ReadAllAsBinary, in a session of nrows rows
\* whose bulk fread delivered `items` complete rows, at most the nrows asked
\* for.  A file of 2^31 rows or more is not held as a sequence: the two
\* 64-bit counts stand for it.
DoBulkReadCheck(items, nrows) ==
    /\ life = "live"
    /\ ncalls < MaxCalls
    /\ obj.mFileType = BINARY_FILE /\ obj.mAction = READ
    /\ nrows.hi > 0 \/ nrows.lo >= 1
    /\ items.hi < nrows.hi \/ (items.hi = nrows.hi /\ items.lo <= nrows.lo)
    /\ \E m \in {BulkReadCheck(Machine(obj, file, fpos, handle), items, nrows)} :
          call' = [NoCall EXCEPT !.op = "ReadAllAsBinary", !.items = items,
                                 !.nrows = nrows, !.pos0 = fpos, !.err = m.err]
    /\ ncalls' = ncalls + 1
    /\ UNCHANGED <<life, obj, file, fpos, handle, nsess, charSigned, written>>

\* session.Close()
DoClose ==
    /\ life = "live"
    /\ obj.mFptr # "NULL"
    /\ \E m \in {Close(Machine(obj, file, fpos, handle))} :
          /\ obj' = m.o
          /\ handle' = m.h
    /\ UNCHANGED <<life, file, fpos, call, ncalls, nsess, charSigned, written>>

\* The session object is destroyed.
Destroy ==
    /\ life = "live"
    /\ \E m \in {Destructor(Machine(obj, file, fpos, handle))} :
          handle' = m.h
    /\ life' = "gone"
    /\ obj' = InitializeVariables
    /\ call' = NoCall
    /\ UNCHANGED <<file, fpos, ncalls, nsess, charSigned, written>>

\* ----------------------------------------------------------- specifications
\* Spec: read sessions over a file that exists, with every kind of row and
\* field request, one or more Read calls per session.
ReadFiles == {Ramp(MaxRows * 4), Ramp(7), TextD2}
ReadDelims == {NullPtr, Comma, Blank, Tab, CommaBlank}
ReadDtypes == {Descr(D2), Descr(D3)}
ReadNrows == {MaxRows - 1, MaxRows}
ReadArgs ==
    {<<PyNone, PyNone>>, <<PyList(<<>>), PyNone>>, <<PyList(<<0>>), PyNone>>,
     <<PyList(<<0, 2>>), PyNone>>, <<PyList(<<1, 0>>), PyNone>>, <<PyOther, PyNone>>,
     <<PyNone, PyList(<<"a">>)>>, <<PyNone, PyList(<<"c", "a">>)>>,
     <<PyNone, PyList(<<"z">>)>>, <<PyNone, PyList(<<"b", "z">>)>>,
     <<PyNone, PyStr("b")>>, <<PyNone, PyOther>>, <<PyNone, PyList(<<>>)>>,
     <<PyList(<<0, 2>>), PyList(<<"a">>)>>, <<PyList(<<1>>), PyList(<<"b", "b">>)>>,
     <<PyList(<<>>), PyList(<<"c">>)>>, <<PyList(<<0>>), PyList(<<"z">>)>>,
     <<PyNone, PyList(<<NonString>>)>>, <<PyList(<<0, 0>>), PyNone>>,
     <<PyList(<<-1>>), PyNone>>}

Init == Start(ReadFiles, MaxSessions - 1, 0)

Next ==
    \/ \E d \in ReadDelims, dt \in ReadDtypes, n \in ReadNrows :
          Construct(PathObj, "r", d, dt, n)
    \/ \E a \in ReadArgs : DoRead(a[1], a[2])
    \/ Destroy

Spec == Init /\ [][Next]_vars

\* SpecLife: sessions of every kind, opened from a path or on a caller's
\* handle, constructions that fail, Close, and calls in the wrong mode.
LifeFileObjs == {PathObj, PyStr("missing"), FileObj, [kind |-> "file", v |-> "closed"],
                 PyOther}
LifeDelims == {NullPtr, Comma, PyOther}
LifeDtypes == {NullPtr, PyOther, Descr(D2)}
LifeNrows == {NoNrows, 0, MaxRows}
LifeReadArgs ==
    {<<PyNone, PyNone>>, <<PyList(<<0>>), PyList(<<"a">>)>>, <<PyNone, PyList(<<"z">>)>>,
     <<PyList(<<1>>), PyList(<<"z", "y">>)>>}

InitLife == Start({Ramp(MaxRows * 3)}, 0, 0)

NextLife ==
    \/ \E fo \in LifeFileObjs, mode \in {"r", "w"}, d \in LifeDelims, dt \in LifeDtypes,
          n \in LifeNrows :
          Construct(fo, mode, d, dt, n)
    \/ \E a \in LifeReadArgs : DoRead(a[1], a[2])
    \/ \E fa \in {0, 1} : DoWrite(Array(D2, 1, Ramp(3)), FALSE, FALSE, fa)
    \/ DoClose
    \/ Destroy

SpecLife == InitLife /\ [][NextLife]_vars

\* SpecRT: a binary write session on an empty file, then a read session on
\* the file it left.
Pattern(n) == [i \in 1..n |-> IF i % 3 = 0 THEN 255 ELSE IF i % 3 = 1 THEN NUL ELSE NL]
RTArrays ==
    {Array(dt, n, Ramp(n * DescrElsize(dt))) : dt \in {D2, D3}, n \in 1..MaxRows}
    \cup {Array(dt, n, Pattern(n * DescrElsize(dt))) : dt \in {D2, D3}, n \in 1..MaxRows}

InitRT == Start({<<>>}, 0, 0)

NextRT ==
    \/ Construct(PathObj, "w", NullPtr, NullPtr, NoNrows)
    \/ \E dt \in ReadDtypes, n \in 1..MaxRows : Construct(PathObj, "r", NullPtr, dt, n)
    \/ \E a \in RTArrays, fa \in {0, 1} : DoWrite(a, FALSE, FALSE, fa)
    \/ \E r \in {PyNone, PyList(<<>>)} : DoRead(r, PyNone)
    \/ Destroy

SpecRT == InitRT /\ [][NextRT]_vars

\* SpecStr: one ASCII Write of one row of byte strings, for every placement
\* of null bytes in the strings and every setting of the two null options.
MaxStrLen == 3
StrBytes == {NUL, 97}
DS == <<Field("s", MaxStrLen, 1, NPY_STRING), Field("n", 1, 1, NPY_INT8),
        Field("t", 2, 2, NPY_STRING)>>
StrArrays ==
    {Array(DS, 1, s \o <<7>> \o t) : s \in [1..MaxStrLen -> StrBytes],
                                     t \in {<<NUL, 98>>, <<98, NUL>>}}

InitStr == Start({<<>>}, MaxSessions - 1, MaxCalls - 1)

\* Rows of three int8 fields, positive and negative values among them.
DN == <<Field("x", 1, 1, NPY_INT8), Field("y", 1, 1, NPY_INT8), Field("z", 1, 1, NPY_INT8)>>
NumArrays == {Array(DN, n, [i \in 1..(n * Len(DN)) |-> (i * 50) % 256]) : n \in 1..MaxRows}

\* Rows with a field of two int8 elements, in the middle and at the end.
DMid == <<Field("x", 1, 1, NPY_INT8), Field("v", 2, 2, NPY_INT8), Field("z", 1, 1, NPY_INT8)>>
DLast == <<Field("x", 1, 1, NPY_INT8), Field("v", 2, 2, NPY_INT8)>>
ElemArrays ==
    {Array(DMid, n, [i \in 1..(n * 4) |-> (i * 50) % 256]) : n \in 1..MaxRows}
    \cup {Array(DLast, n, [i \in 1..(n * 3) |-> (i * 50) % 256]) : n \in 1..MaxRows}

NextStr ==
    \/ \E d \in {Comma, Blank} : Construct(PathObj, "w", d, NullPtr, NoNrows)
    \/ \E a \in StrArrays \cup NumArrays \cup ElemArrays, pad \in BOOLEAN, ign \in BOOLEAN, fa \in {0, 2} :
          DoWrite(a, pad, ign, fa)
    \/ Destroy

SpecStr == InitStr /\ [][NextStr]_vars

\* SpecTxt: a write session on an empty file with a delimiter of one or two
\* characters, then a read session on the text it left.  The strings hold
\* letters, no null bytes.
DTxt == <<Field("s", 2, 1, NPY_STRING), Field("t", 1, 1, NPY_STRING),
          Field("n", 1, 1, NPY_INT8)>>
TxtDelims == {Comma, Blank, CommaBlank}
TxtDtypes == {D2, DTxt}
TxtArrays ==
    {Array(D2, n, [i \in 1..(n * 3) |->
                      IF (i - 1) % 3 = 0 THEN 7 + ((i - 1) \div 3) ELSE 97 + ((i - 1) % 7)])
        : n \in 1..MaxRows}
    \cup {Array(DTxt, n, [i \in 1..(n * 4) |->
                             IF (i - 1) % 4 = 3 THEN 7 + ((i - 1) \div 4) ELSE 97 + ((i - 1) % 7)])
             : n \in 1..MaxRows}

InitTxt == Start({<<>>}, 0, 0)

NextTxt ==
    \/ \E d \in TxtDelims : Construct(PathObj, "w", d, NullPtr, NoNrows)
    \/ \E d \in TxtDelims, dt \in TxtDtypes, n \in 1..MaxRows :
          Construct(PathObj, "r", d, Descr(dt), n)
    \/ \E a \in TxtArrays : DoWrite(a, FALSE, FALSE, 0)
    \/ DoRead(PyNone, PyNone)
    \/ Destroy

SpecTxt == InitTxt /\ [][NextTxt]_vars

\* SpecBig: the bulk read's comparison for row counts on either side of
\* 2^31 and of 2^32, and every count of rows fread may deliver.
MaxHi == 3
WideCounts == {Wide(h, l) : h \in 0..MaxHi, l \in {0, 1, 2, INT_MAX - 1, INT_MAX}}

InitBig == Start({<<>>}, MaxSessions - 1, MaxCalls - 1)

NextBig ==
    \/ \E dt \in ReadDtypes, n \in ReadNrows : Construct(PathObj, "r", NullPtr, dt, n)
    \/ \E k \in WideCounts, n \in WideCounts : DoBulkReadCheck(k, n)
    \/ Destroy

SpecBig == InitBig /\ [][NextBig]_vars

\* SpecAscii: one row skip or one Read of a row of byte strings on a
\* delimited file, for every content of the file up to MaxLen bytes drawn
\* from a newline, a letter and the byte 255.
MaxLen == 6
ScanBytes == {NL, 97, 255}
AsciiFiles == UNION {[1..n -> ScanBytes] : n \in 0..MaxLen}
DBytes == <<Field("s", 1, 1, NPY_STRING), Field("t", 2, 2, NPY_STRING)>>
SkipCounts == {-1, 0, 1, 2}

InitAscii == Start(AsciiFiles, MaxSessions - 1, MaxCalls - 1)

NextAscii ==
    \/ \E d \in {Comma, Blank} : Construct(PathObj, "r", d, Descr(DBytes), 1)
    \/ \E n \in SkipCounts : DoSkipAsciiRows(n)
    \/ \E r \in {PyNone, PyList(<<0>>)}, f \in {PyNone, PyList(<<"t">>)} : DoRead(r, f)
    \/ Destroy

SpecAscii == InitAscii /\ [][NextAscii]_vars

\* ------------------------------------------------------------------ claims
\* Errors a Read call raises before it reaches the selection of rows and
\* fields, and errors raised before any byte is read.
EntryErrs == {"NotOpen", "WrongMode"}
ConfigErrs == {"NotOpen", "WrongMode", "BadRows", "BadFields", "FieldsNotString",
               "NoMatchingFields"}

IsRead == call.op = "Read"

\* The requested names as a sequence, for a list or a single string.
Requested(fields) == IF fields.kind = "str" THEN <<fields.v>> ELSE fields.v

NamesRequest(fields) ==
    /\ fields.kind \in {"list", "str"}
    /\ Len(Requested(fields)) > 0
    /\ \A k \in 1..Len(Requested(fields)) : Requested(fields)[k] # NonString

\* The schema positions (0-based) whose name occurs in the request.
MatchSet(names, req) ==
    {i \in 0..(Len(names) - 1) : \E k \in 1..Len(req) : req[k] = names[i + 1]}

\* Whether ids lists exactly the members of S, each once, ascending.
AscendingListOf(ids, S) ==
    /\ Len(ids) = Cardinality(S)
    /\ \A k \in 1..Len(ids) : ids[k] \in S
    /\ \A k \in 1..(Len(ids) - 1) : ids[k] < ids[k + 1]

StrictlyAscendingIn(list, n) ==
    /\ \A k \in 1..Len(list) : list[k] >= 0 /\ list[k] < n
    /\ \A k \in 1..(Len(list) - 1) : list[k] < list[k + 1]

RowOf(arr, k) == SubSeq(arr.data, k * arr.itemsize + 1, (k + 1) * arr.itemsize)

\* The same session as first constructed, positioned where the last call
\* started: what a full read is measured on.
FreshSession ==
    [o |-> [InitializeVariables EXCEPT
               !.mMode = obj.mMode, !.mFptr = obj.mFptr, !.mFptrIsLocal = obj.mFptrIsLocal,
               !.mDelim = obj.mDelim, !.mReadAsWhitespace = obj.mReadAsWhitespace,
               !.mFileType = obj.mFileType, !.mAction = obj.mAction,
               !.mTypeDescr = obj.mTypeDescr, !.mNames = obj.mNames,
               !.mSizes = obj.mSizes, !.mNel = obj.mNel, !.mTypeNums = obj.mTypeNums,
               !.mRowSize = obj.mRowSize, !.mNfields = obj.mNfields,
               !.mNrows = obj.mNrows],
     f |-> file, p |-> call.pos0, h |-> handle, err |-> NoErr, overrun |-> FALSE,
     nout |-> 0, failAt |-> 0, rewound |-> FALSE]

FullRead == Read(FreshSession, PyNone, call.fields)

\* The last call was a Read of everything, from the start of a binary file
\* that holds what one Write put there, with the schema and the row count of
\* the array written.
C1_RoundTripCase ==
    /\ IsRead /\ call.err \notin ConfigErrs
    /\ call.rows = PyNone /\ call.fields = PyNone /\ call.pos0 = 0
    /\ written.kind = "arr" /\ written.nrows >= 1
    /\ obj.mFileType = BINARY_FILE
    /\ obj.mTypeDescr = Descr(written.dtype)
    /\ obj.mNrows = written.nrows

\* C1: binary round trip.  Reading back, with no row list and no field list,
\* the rows a binary Write wrote succeeds and fills the destination buffer
\* with exactly the bytes of the written buffer.
C1_BinaryRoundTrip ==
    C1_RoundTripCase
    => /\ call.err = NoErr
       /\ ~call.overrun
       /\ call.ret.nrows = written.nrows
       /\ call.ret.data = written.data

\* C1: a round trip of two rows or more, holding the bytes 0, 10 and 255.
C1_Witness ==
    /\ C1_RoundTripCase /\ call.err = NoErr
    /\ written.nrows >= 2
    /\ written.data = Pattern(Len(written.data))
    /\ call.ret.data = written.data

\* The file is laid out as the session's delimiter and schema say: any bytes
\* for a binary session, the comma-separated text of layout D2 otherwise.
WellFormed ==
    \/ obj.mFileType = BINARY_FILE
    \/ file = TextD2 /\ obj.mDelim = <<44>> /\ obj.mTypeDescr = Descr(D2)

\* C2: for a strictly ascending, in-range row list, Read of a well-formed
\* file returns len(list) rows and result row k is row list[k] of the full
\* read of the same fields.
C2_RowSubsetting ==
    (/\ IsRead /\ call.err \notin EntryErrs
     /\ WellFormed
     /\ call.rows.kind = "list"
     /\ StrictlyAscendingIn(call.rows.v, obj.mNrows)
     /\ FullRead.err = NoErr)
    => /\ call.err = NoErr
       /\ ~call.overrun
       /\ call.ret.nrows = Len(call.rows.v)
       /\ \A k \in 1..Len(call.rows.v) :
             RowOf(call.ret, k - 1) = RowOf(FullRead.o.mReturnObject, call.rows.v[k])

\* The same, for the first Read call of a session only.
C2_FirstCall == (ncalls = 1) => C2_RowSubsetting

\* C3: the kept field indices are the schema positions whose name is
\* requested, each once, ascending, and the keep mask is true exactly there.
C3_FieldSubsetOrder ==
    (IsRead /\ call.err \notin ConfigErrs /\ NamesRequest(call.fields))
    => LET S == MatchSet(obj.mNames, Requested(call.fields))
       IN /\ AscendingListOf(obj.mKeepId, S)
          /\ \A i \in 0..(obj.mNfields - 1) : (obj.mKeep[i + 1] # 0) <=> (i \in S)

\* The same, for the first Read call of a session only.
C3_FirstCall == (ncalls = 1) => C3_FieldSubsetOrder

\* C4: a request of names none of which is in the schema fails with
\* NoMatchingFields; with at least one match the unmatched names are dropped
\* and the call does not fail over the field request.
C4_NoMatchingFields ==
    (IsRead /\ call.err \notin (EntryErrs \cup {"BadRows"}) /\ NamesRequest(call.fields))
    => LET S == MatchSet(obj.mNames, Requested(call.fields))
       IN /\ (S = {}) => call.err = "NoMatchingFields"
          /\ (S # {}) => /\ call.err \notin {"NoMatchingFields", "BadFields", "FieldsNotString"}
                         /\ AscendingListOf(obj.mKeepId, S)
                         /\ obj.mKeepNfields = Cardinality(S)

\* C4: a Read asked for the one name "z", which no schema holds, has failed.
C4_Witness ==
    /\ IsRead /\ call.err = "NoMatchingFields"
    /\ call.fields = PyList(<<"z">>)
    /\ MatchSet(obj.mNames, Requested(call.fields)) = {}

\* A Read call that got as far as selecting its rows.
RowsSelected == IsRead /\ call.err \notin (EntryErrs \cup {"BadRows"})

\* C5 as stated: an absent or empty row list selects all rows; only a
\* non-empty list sets the count to its length.
C5_RowDefault ==
    RowsSelected
    => IF call.rows.kind = "list" /\ Len(call.rows.v) > 0
       THEN obj.mNrowsToRead = Len(call.rows.v)
       ELSE obj.mNrowsToRead = obj.mNrows

\* C5 amended: only an absent row list selects all rows; a list that is
\* present, the empty list included, sets the count to its length, and a
\* Read that succeeds returns that many rows.
C5_RowCountIsListLength ==
    RowsSelected
    => /\ IF call.rows.kind = "list"
          THEN obj.mNrowsToRead = Len(call.rows.v)
          ELSE obj.mNrowsToRead = obj.mNrows
       /\ call.err = NoErr => call.ret.nrows = obj.mNrowsToRead

\* C5: a Read given the empty row list has returned no rows.
C5_Witness ==
    /\ IsRead /\ call.err = NoErr
    /\ call.rows = PyList(<<>>)
    /\ obj.mNrows > 0 /\ obj.mNrowsToRead = 0 /\ call.ret.nrows = 0

\* The bytes of a string element before its first null byte.
RECURSIVE UpToNull(_)
UpToNull(s) ==
    IF s = <<>> \/ Head(s) = NUL THEN <<>> ELSE <<Head(s)>> \o UpToNull(Tail(s))

\* What the claim says is written for the string element s.
ExpectedString(s, pad, ign) ==
    IF ign THEN UpToNull(s)
    ELSE [i \in 1..Len(s) |-> IF s[i] = NUL /\ pad THEN SPACE ELSE s[i]]

\* The last call wrote one row of layout DS to an empty delimited file, and
\* no output operation failed.
C6_Case ==
    /\ call.op = "Write" /\ call.err = NoErr /\ call.failAt = 0 /\ call.pos0 = 0
    /\ obj.mFileType = ASCII_FILE
    /\ call.arr.kind = "arr" /\ call.arr.dtype = DS /\ call.arr.nrows = 1

\* C6: string null handling on ASCII write.  Every string element of the
\* row is written as the bytes before its first null when ignore-nulls is on,
\* and otherwise as all its bytes, each null a space when pad-nulls is on and
\* a literal null when not: the file is the row laid out with those outputs.
C6_StringNulls ==
    C6_Case
    => LET d == obj.mDelim
           E(a, b) == ExpectedString(SubSeq(call.arr.data, a, b), call.pad, call.ign)
       IN file = E(1, MaxStrLen) \o d \o PrintInt8(call.arr.data[MaxStrLen + 1]) \o d
                 \o E(MaxStrLen + 2, MaxStrLen + 2) \o E(MaxStrLen + 3, MaxStrLen + 3)
                 \o <<NL>>

\* C6: the string "a\0a..." written with both options on.
C6_Witness ==
    /\ C6_Case /\ call.ign /\ call.pad
    /\ SubSeq(call.arr.data, 1, 3) = <<97, NUL, 97>>
    /\ SubSeq(file, 1, 2) = <<97>> \o obj.mDelim

\* The last call was a Read that ran the whole-file bulk read.
BulkReadRan == IsRead /\ call.err \notin ConfigErrs /\ obj.mReadWholeFileBinary

Remaining == IF call.pos0 >= Len(file) THEN 0 ELSE Len(file) - call.pos0

\* C7: a whole-file bulk read over fewer than rowCount x rowSize bytes ends
\* in TruncatedFile and returns nothing.
C7_TruncatedFile ==
    (BulkReadRan /\ Remaining < obj.mNrows * obj.mRowSize)
    => (call.err = "TruncatedFile" /\ call.ret = NoArray)

\* C7: a bulk read that found some bytes, but not all, has failed.
C7_Witness ==
    /\ BulkReadRan /\ call.rows = PyNone /\ call.fields = PyNone
    /\ Remaining < obj.mNrows * obj.mRowSize /\ Remaining > 0
    /\ call.err = "TruncatedFile"

\* C8: the whole-file strategy runs only for a binary file with every field
\* and exactly the rows 0..rowCount-1 requested.
C8_WholeFileOnlyWhenAll ==
    BulkReadRan
    => /\ obj.mFileType = BINARY_FILE
       /\ obj.mKeepNfields = obj.mNfields
       /\ \/ call.rows.kind = "none"
          \/ call.rows.kind = "list" /\ call.rows.v = [i \in 1..obj.mNrows |-> i - 1]

\* A row list with an index below 0 or not below rowCount.
OutOfRange(list, n) == \E k \in 1..Len(list) : list[k] < 0 \/ list[k] >= n

\* C11: a Read whose row list holds an index outside [0, rowCount) fails with
\* RowIndexOutOfRange, and the file cursor is where it was.
C11_RowIndexOutOfRange ==
    (/\ IsRead /\ call.err \notin ConfigErrs /\ WellFormed
     /\ call.rows.kind = "list" /\ OutOfRange(call.rows.v, obj.mNrows))
    => (call.err = "RowIndexOutOfRange" /\ fpos = call.pos0)

\* C13 as stated: the session is in whitespace mode exactly when the
\* delimiter is not empty and begins with a whitespace character, and an
\* empty delimiter gives a binary file.
C13_WhitespaceMode ==
    life = "live"
    => /\ obj.mReadAsWhitespace <=> (obj.mDelim # <<>> /\ IsSpace(obj.mDelim[1]))
       /\ (obj.mDelim = <<>>) <=> (obj.mFileType = BINARY_FILE)

\* C13 amended: the session is in whitespace mode exactly when the
\* delimiter is not empty and begins with the space character; a delimiter
\* that begins with a tab gives a delimited file that is not in whitespace
\* mode; an empty delimiter gives a binary file, never in whitespace mode.
C13_SpaceMode ==
    life = "live"
    => /\ obj.mReadAsWhitespace <=> (obj.mDelim # <<>> /\ obj.mDelim[1] = SPACE)
       /\ (obj.mDelim = <<>>) <=> (obj.mFileType = BINARY_FILE)
       /\ (obj.mFileType = BINARY_FILE) => ~obj.mReadAsWhitespace

\* C13: a live session whose delimiter is a tab is not in whitespace mode.
C13_Witness ==
    /\ life = "live" /\ obj.mDelim = <<9>>
    /\ obj.mFileType = ASCII_FILE /\ ~obj.mReadAsWhitespace

\* A Read call that got as far as choosing its strategy.
Prepared == IsRead /\ call.err \notin ConfigErrs

\* C14: strategy per Read call.  A call that asks for a proper subset of the
\* fields, or reads a delimited file, runs neither the whole-file read nor
\* the whole-row read, whatever earlier calls asked for; and the two
\* strategy flags are never both set.
C14_StrategyPerCall ==
    /\ Prepared
       => ((obj.mKeepNfields < obj.mNfields \/ obj.mFileType = ASCII_FILE)
           => (~obj.mReadWholeFileBinary /\ ~obj.mReadWholeRowBinary))
    /\ ~(obj.mReadWholeFileBinary /\ obj.mReadWholeRowBinary)

\* The same, for the first Read call of a session only.
C14_FirstCall == (ncalls = 1) => C14_StrategyPerCall

\* C15: destination pointer discipline.  A Read that completes field by
\* field or row by row has stored nothing past selectedRowCount x
\* selectedRowSize bytes, and leaves the destination pointer at exactly that
\* offset: it advanced by the size of every field kept and by nothing else.
C15_DestinationPointer ==
    (IsRead /\ call.err = NoErr /\ ~obj.mReadWholeFileBinary)
    => /\ ~call.overrun
       /\ obj.mData = call.ret.nrows * call.ret.itemsize

\* The same, for the first Read call of a session only.
C15_FirstCall == (ncalls = 1) => C15_DestinationPointer

\* C16: forward-only cursor.  Within a Read call the current row never goes
\* down and the file position never moves backward, whatever the row list:
\* no seek is made by a negative amount and the call ends at or after the
\* position it started from.
C16_ForwardOnly == IsRead => (~call.rewound /\ fpos >= call.pos0)

\* C16: a Read of rows [1, 0] of a three-row binary file has completed, row
\* by row, and the cursor has moved forward.
C16_Witness ==
    /\ IsRead /\ call.err = NoErr
    /\ call.rows = PyList(<<1, 0>>)
    /\ obj.mFileType = BINARY_FILE /\ ~obj.mReadWholeFileBinary
    /\ fpos > call.pos0 /\ ~call.rewound

\* C12: every output failure during an ASCII Write is fatal.  A Write one
\* of whose output operations failed, whichever it was, ends in WriteFailure.
C12_OutputFailureFatal ==
    (/\ call.op = "Write" /\ obj.mFileType = ASCII_FILE
     /\ call.failAt > 0 /\ call.nout >= call.failAt)
    => call.err = "WriteFailure"

\* The text of fields k.. of row r of an array of one-element int8 fields:
\* the numbers in schema order, the delimiter d between them.
RECURSIVE FieldsText(_, _, _, _)
FieldsText(arr, r, k, d) ==
    LET nf == Len(arr.dtype)
        v == PrintInt8(arr.data[r * nf + k])
    IN IF k = nf THEN v ELSE v \o d \o FieldsText(arr, r, k + 1, d)

\* The text of rows r.. of the array, a newline after each.
RECURSIVE RowsText(_, _, _)
RowsText(arr, r, d) ==
    IF r >= arr.nrows THEN <<>>
    ELSE FieldsText(arr, r, 1, d) \o <<NL>> \o RowsText(arr, r + 1, d)

\* The last call wrote rows of numbers to an empty delimited file, and no
\* output operation failed.
C17_Case ==
    /\ call.op = "Write" /\ call.err = NoErr /\ call.failAt = 0 /\ call.pos0 = 0
    /\ obj.mFileType = ASCII_FILE
    /\ call.arr.kind = "arr" /\ call.arr.dtype = DN

\* C17: ASCII row layout on write.  Each row is its fields in schema order
\* with the delimiter between consecutive fields and none after the last,
\* followed by one newline; N rows give exactly N newlines.
C17_RowLayout ==
    C17_Case
    => /\ file = RowsText(call.arr, 0, obj.mDelim)
       /\ Cardinality({i \in 1..Len(file) : file[i] = NL}) = call.arr.nrows

\* C17: two rows or more have been written with the delimiter ",".
C17_Witness ==
    /\ C17_Case /\ call.arr.nrows >= 2 /\ obj.mDelim = <<44>>
    /\ SubSeq(file, 1, 3) = <<53, 48, 44>>
    /\ file[Len(file)] = NL

\* The cursor right after the n-th newline at or after position p of f,
\* -1 when f has fewer than n newlines there.
RECURSIVE AfterNewlines(_, _, _)
AfterNewlines(f, p, n) ==
    IF n <= 0 THEN p
    ELSE IF p >= Len(f) THEN -1
    ELSE AfterNewlines(f, p + 1, IF f[p + 1] = NL THEN n - 1 ELSE n)

\* C18: the ASCII row skip-ahead always terminates.  Skipping n rows leaves
\* the cursor right after the n-th newline, or fails with UnexpectedEOF when
\* the file has fewer; n <= 0 consumes nothing; whatever bytes the file
\* holds, 255 included.
C18_SkipAhead ==
    /\ life # "hung"
    /\ call.op = "SkipAsciiRows"
       => IF AfterNewlines(file, call.pos0, call.arg) >= 0
          THEN call.err = NoErr /\ fpos = AfterNewlines(file, call.pos0, call.arg)
          ELSE call.err = "UnexpectedEOF"

\* The last call read the one row of a file of byte-string fields.
C19_Case == IsRead /\ obj.mTypeDescr = Descr(DBytes) /\ call.err \notin ConfigErrs

\* The characters a Read of the row at p returns: those of s and t, or of t.
C19_Chars(f, p, fields) ==
    IF fields = PyNone THEN <<f[p + 1], f[p + 3], f[p + 5]>> ELSE <<f[p + 3], f[p + 5]>>

\* C19: an ASCII byte-string field, kept or skipped, moves the cursor by
\* nel * (elementSize + 1); the characters are stored verbatim, one
\* separator is consumed after each element, and end of input inside an
\* element fails with UnexpectedEOF.
C19_ByteStringField ==
    C19_Case
    => /\ Len(file) - call.pos0 >= 6
          => /\ call.err = NoErr
             /\ fpos = call.pos0 + 6
             /\ call.ret.data = C19_Chars(file, call.pos0, call.fields)
       /\ Len(file) - call.pos0 < 5 => call.err = "UnexpectedEOF"

\* A Read call on a delimited file that got as far as building the table
\* of scan formats.
C20_Case == Prepared /\ obj.mFileType = ASCII_FILE

\* C20: with a delimiter that does not begin with whitespace the scan format
\* of a numeric type is its base format followed immediately by the
\* delimiter, the byte-string type has no suffix; with one that begins with
\* whitespace no format has a suffix.
C20_DelimiterSuffix ==
    C20_Case
    => \A t \in TypeNums :
          obj.mScanFormats[t] =
              IF ~IsSpace(obj.mDelim[1]) /\ BaseScanFormat(t) # <<37>>
              THEN BaseScanFormat(t) \o obj.mDelim
              ELSE BaseScanFormat(t)

\* C20, amended: outside whitespace mode (the delimiter does not begin with
\* a space) the scan format of a numeric type is its base format, one
\* space, then the delimiter string once; the byte-string type has the bare
\* format; in whitespace mode no format has a suffix.
C20_SpaceThenDelimiter ==
    C20_Case
    => \A t \in TypeNums :
          obj.mScanFormats[t] =
              IF obj.mDelim[1] # SPACE /\ t = NPY_INT8
              THEN <<37, 104, 104, 100, SPACE>> \o obj.mDelim
              ELSE IF t = NPY_INT8 THEN <<37, 104, 104, 100>>
              ELSE <<37>>

\* C20: a Read on a comma-delimited file has built "%hhd ," for int8 and
\* left the byte-string format bare.
C20_Witness ==
    /\ C20_Case /\ obj.mDelim = <<44>>
    /\ obj.mScanFormats[NPY_INT8] = <<37, 104, 104, 100, 32, 44>>
    /\ obj.mScanFormats[NPY_STRING] = <<37>>

\* The schema positions the call's field request selects: all of them for
\* no request, those whose name is requested otherwise.
C21_Selected ==
    IF call.fields.kind = "none" THEN 0..(obj.mNfields - 1)
    ELSE MatchSet(obj.mNames, Requested(call.fields))

\* C21: keep mask freshness.  After any sequence of Read calls the keep mask
\* is true at exactly the positions the current call's request matches, and
\* a per-field read stores selectedRowSize bytes per row: the destination
\* pointer ends at rows * selectedRowSize and no store leaves the array.
C21_KeepMaskFresh ==
    (/\ IsRead /\ call.err \notin ConfigErrs
     /\ call.fields.kind = "none" \/ NamesRequest(call.fields))
    => /\ \A i \in 0..(obj.mNfields - 1) : (obj.mKeep[i + 1] # 0) <=> (i \in C21_Selected)
       /\ (call.err = NoErr /\ ~obj.mReadWholeFileBinary /\ ~obj.mReadWholeRowBinary)
          => (~call.overrun /\ obj.mData = call.ret.nrows * call.ret.itemsize)

\* The same, for the first Read call of a session only.
C21_FirstCall == (ncalls = 1) => C21_KeepMaskFresh

\* The text of values k..w of row r of an array of int8 values, w to the
\* row: the numbers with the delimiter d between any two adjacent ones.
RECURSIVE ValuesText(_, _, _, _, _)
ValuesText(arr, r, k, w, d) ==
    IF k = w THEN PrintInt8(arr.data[r * w + k])
    ELSE PrintInt8(arr.data[r * w + k]) \o d \o ValuesText(arr, r, k + 1, w, d)

\* The text of rows r.. of the array, a newline after each.
RECURSIVE ValueRowsText(_, _, _, _)
ValueRowsText(arr, r, w, d) ==
    IF r >= arr.nrows THEN <<>>
    ELSE ValuesText(arr, r, 1, w, d) \o <<NL>> \o ValueRowsText(arr, r + 1, w, d)

\* The last call wrote rows of int8 values, some fields of more than one
\* element, to an empty delimited file, and no output operation failed.
C22_Case ==
    /\ call.op = "Write" /\ call.err = NoErr /\ call.failAt = 0 /\ call.pos0 = 0
    /\ obj.mFileType = ASCII_FILE
    /\ call.arr.kind = "arr" /\ call.arr.dtype \in {DN, DMid, DLast}

\* C22: element separation on ASCII write.  In every written row any two
\* adjacent values, elements of one field or the last of one field and the
\* first of the next, are separated by exactly one delimiter, whatever the
\* schema, one whose last field has several elements included.
C22_ElementSeparation ==
    C22_Case
    => file = ValueRowsText(call.arr, 0, Len(call.arr.data) \div call.arr.nrows, obj.mDelim)

\* The same, for schemas whose last field has one element.
C22_SingleLast == (call.arr.dtype # DLast) => C22_ElementSeparation

\* The full-schema Read of the rows the last call asked for, on the session
\* as first constructed.
FullSchemaRead == Read(FreshSession, call.rows, PyNone)

\* The bytes of fields i.. of a full row that lie in the fields of S, in
\* schema order; off is the offset of field i in the row.
RECURSIVE Project(_, _, _, _)
Project(row, S, i, off) ==
    IF i >= obj.mNfields THEN <<>>
    ELSE (IF i \in S THEN SubSeq(row, off + 1, off + obj.mSizes[i + 1]) ELSE <<>>)
         \o Project(row, S, i + 1, off + obj.mSizes[i + 1])

\* The last call read a non-empty field subset of a valid row selection
\* from a binary file whose full-schema read of those rows succeeds.
C23_Case ==
    /\ IsRead /\ call.err \notin EntryErrs
    /\ obj.mFileType = BINARY_FILE
    /\ NamesRequest(call.fields)
    /\ MatchSet(obj.mNames, Requested(call.fields)) # {}
    /\ \/ call.rows.kind = "none"
       \/ call.rows.kind = "list" /\ StrictlyAscendingIn(call.rows.v, obj.mNrows)
    /\ FullSchemaRead.err = NoErr

\* C23: field projection equivalence on binary files.  The Read of a field
\* subset returns the full-schema Read of the same rows projected onto the
\* kept fields in schema order, and leaves the cursor where the whole-row
\* strategy leaves it, rowSize bytes on for each row.
C23_FieldProjection ==
    C23_Case
    => /\ call.err = NoErr
       /\ ~call.overrun
       /\ call.ret.nrows = FullSchemaRead.o.mReturnObject.nrows
       /\ \A k \in 0..(call.ret.nrows - 1) :
             RowOf(call.ret, k) =
                 Project(RowOf(FullSchemaRead.o.mReturnObject, k),
                         MatchSet(obj.mNames, Requested(call.fields)), 0, 0)
       /\ fpos = FullSchemaRead.p

\* The same, for the first Read call of a session only.
C23_FirstCall == (ncalls = 1) => C23_FieldProjection

\* The text a Write of the array leaves on an empty file, in a session
\* opened for writing with the delimiter d.
WrittenText(arr, d) ==
    Write(Records(<<>>, 0, PathObj, "w", PyStr(d), NullPtr, NoNrows), arr, FALSE, FALSE).f

\* The last call read everything, with no subsetting, from the start of a
\* delimited file.
C24_Case ==
    /\ IsRead /\ call.err \notin EntryErrs
    /\ call.rows = PyNone /\ call.fields = PyNone /\ call.pos0 = 0
    /\ obj.mFileType = ASCII_FILE

\* C24: ASCII round trip of byte-string fields.  Whatever the delimiter
\* string, of one character or more, reading back with the same schema,
\* delimiter and row count the text a Write left returns the bytes written.
C24_AsciiRoundTrip ==
    C24_Case
    => \A a \in TxtArrays :
          (/\ obj.mTypeDescr = Descr(a.dtype) /\ obj.mNrows = a.nrows
           /\ file = WrittenText(a, obj.mDelim))
          => /\ call.err = NoErr
             /\ call.ret.data = a.data

\* The same, for delimiters of one character.
C24_OneCharacter == (Len(obj.mDelim) = 1) => C24_AsciiRoundTrip

\* C25: the bulk read's row-count comparison is exact.  ReadAllAsBinary
\* succeeds if and only if the number of complete rows read equals
\* rowCount, for every rowCount >= 1, those of 2^31 and more included.
C25_ExactComparison ==
    call.op = "ReadAllAsBinary" => (call.err = NoErr <=> call.items = call.nrows)

\* The same, for row counts that an int holds.
C25_IntRange == (call.nrows.hi = 0) => C25_ExactComparison

\* The step is a Read or a Write that fails with one of the configuration
\* errors of the claim.
ConfigFailure ==
    /\ ncalls' = ncalls + 1
    /\ \/ call'.op = "Read" /\ call'.err \in {"NotOpen", "WrongMode", "NoMatchingFields"}
       \/ call'.op = "Write" /\ call'.err \in {"NotOpen", "WrongMode"}

NoInputOutput == file' = file /\ fpos' = fpos /\ handle' = handle

\* C9 as stated: a call that fails with a configuration error has done no
\* input or output, has left the cursor where it was, and has left the row
\* count to read, the row list, the keep mask and the kept-field count as
\* they were.
C9_NoTrace ==
    [][ConfigFailure
       => /\ NoInputOutput
          /\ obj'.mNrowsToRead = obj.mNrowsToRead
          /\ obj'.mRowsToRead = obj.mRowsToRead
          /\ obj'.mKeep = obj.mKeep
          /\ obj'.mKeepNfields = obj.mKeepNfields]_vars

\* The row list and the row count to read that a Read call given rows sets.
RowsSetBy(o, rows) ==
    [o EXCEPT !.mRowsToRead = IF rows.kind = "none" THEN NullPtr
                              ELSE [kind |-> "arr", v |-> rows.v],
              !.mNrowsToRead = IF rows.kind = "none" THEN o.mNrows ELSE Len(rows.v)]

\* C9 amended: such a call has done no input or output and has left the
\* cursor where it was; after NotOpen or WrongMode every session field is as
\* it was; after NoMatchingFields the row list and the row count to read are
\* those of the failed call, the keep mask has the schema's length with its
\* old entries kept and new ones false, the kept ids are cleared, and every
\* other field, the kept-field count included, is as it was.
C9_NoTraceAmended ==
    [][ConfigFailure
       => /\ NoInputOutput
          /\ call'.err \in EntryErrs => obj' = obj
          /\ call'.err = "NoMatchingFields"
             => obj' = [RowsSetBy(obj, call'.rows) EXCEPT
                           !.mKeep = Resize(obj.mKeep, obj.mNfields, 0),
                           !.mKeepId = <<>>]]_vars

\* C9: a Read naming no field of the schema has failed after the row count
\* to read was set to the length of its row list.
C9_Witness ==
    /\ IsRead /\ call.err = "NoMatchingFields"
    /\ call.rows = PyList(<<1>>)
    /\ obj.mNrowsToRead = 1 /\ obj.mNrows = MaxRows
    /\ fpos = call.pos0

\* C10: handle ownership.  A handle the session opened from a path is closed
\* exactly once by the time the session is gone, whether it was destroyed or
\* its construction failed; a handle the caller supplied is never closed.
C10_HandleOwnership ==
    /\ handle.owner = "caller" => (handle.open /\ handle.nclose = 0)
    /\ handle.owner = "session" => handle.nclose <= 1
    /\ (life \in {"gone", "failed"} /\ handle.owner = "session")
       => (~handle.open /\ handle.nclose = 1)

====
